---- MODULE Spec2Model ----
(***************************************************************************)
(* Model of the discrete filter of src/Discrete_Filter/Filter.c.           *)
(*                                                                         *)
(* A filter owns four ring buffers of floats: numerator, denominator,      *)
(* in_list and out_list.  The filter operations are translated statement   *)
(* by statement from Filter.c; they only touch the buffers through the     *)
(* rb_*_F interface.  The ring buffer itself (Ring_Buffer.c/.h) is not     *)
(* part of src/, so the rb_*_F operators follow the contract of spec.md    *)
(* section 4.1.                                                            *)
(*                                                                         *)
(* A C float is modelled by the rational <<n, d>> it denotes, in lowest     *)
(* terms with d > 0.  Each arithmetic operation computes the exact result  *)
(* and rounds it to the nearest value with a 24-bit significand, ties to   *)
(* even, as IEEE single precision does (exponent range, infinities and NaN *)
(* are left out: the inputs stay far from them and a0 is never zero).      *)
(***************************************************************************)
EXTENDS Integers, Sequences, FiniteSets, TLC

VARIABLES
    p_filt,     \* the Filter_Data_t object: four ring buffers
    init_args,  \* arguments of the latest Filter_Init call
    last,       \* the latest call: operation, argument, filter before it, return value
    prev,       \* the call before the latest one
    printed,    \* what the latest call wrote to stdout
    calls,      \* number of calls made so far
    inits,      \* number of Filter_Init calls made so far
    run         \* the call in progress, where calls are followed loop by loop

vars == <<p_filt, init_args, last, prev, printed, calls, inits, run>>

(***************************************************************************)
(* Bounds of the model.                                                    *)
(***************************************************************************)
MaxCalls == 6
MaxInits == 2
MaxStepCalls == 3
MaxIterCount == 300

(***************************************************************************)
(* float arithmetic on exact rationals.                                    *)
(***************************************************************************)
Abs(n) == IF n < 0 THEN -n ELSE n

RECURSIVE GCD(_, _)
GCD(a, b) == IF b = 0 THEN a ELSE GCD(b, a % b)

Rat(n, d) ==
    LET s == IF d < 0 THEN -1 ELSE 1
        g == GCD(Abs(n), Abs(d))
    IN  <<(s * n) \div g, (s * d) \div g>>

F(n) == <<n, 1>>

Zero == F(0)

RECURSIVE Pow2(_)
Pow2(k) == IF k = 0 THEN 1 ELSE 2 * Pow2(k - 1)

RECURSIVE OddPart(_)
OddPart(n) == IF n # 0 /\ n % 2 = 0 THEN OddPart(n \div 2) ELSE n

\* 2^24: a float has a significand of 24 bits (FLT_MANT_DIG)
MantissaLimit == 16777216

\* the rational r is a float: a significand below 2^24 times a power of two
Representable(r) ==
    /\ OddPart(r[2]) = 1
    /\ (Abs(r[1]) < MantissaLimit \/ OddPart(Abs(r[1])) < MantissaLimit)

\* the exponent e of the last significand bit of a / d (here a / d >= 2^24):
\* the least e >= from with a / d < 2^(24 + e)
RECURSIVE ExponentUp(_, _, _)
ExponentUp(a, d, from) ==
    IF a \div (d * Pow2(from)) < MantissaLimit THEN from
    ELSE ExponentUp(a, d, from + 1)

\* the same for a / d < 2^24, as k = -e: the greatest k >= from with
\* a * 2^k / d < 2^24
RECURSIVE ExponentDown(_, _, _)
ExponentDown(a, d, from) ==
    IF (a * Pow2(from + 1)) \div d < MantissaLimit THEN ExponentDown(a, d, from + 1)
    ELSE from

\* num / den rounded to an integer, ties to even
NearestEven(num, den) ==
    LET m   == num \div den
        rem == num % den
    IN  IF 2 * rem > den \/ (2 * rem = den /\ m % 2 = 1) THEN m + 1 ELSE m

\* the float nearest to the rational r
Nearest(r) ==
    IF Representable(r) THEN r
    ELSE LET sgn == IF r[1] < 0 THEN -1 ELSE 1
             a   == Abs(r[1])
             d   == r[2]
         IN  IF a \div d >= MantissaLimit
             THEN LET e == ExponentUp(a, d, 1)
                  IN  Rat(sgn * NearestEven(a, d * Pow2(e)) * Pow2(e), 1)
             ELSE LET k == ExponentDown(a, d, 0)
                  IN  Rat(sgn * NearestEven(a * Pow2(k), d), Pow2(k))

\* the result of a float operation: the operand r is computed once and
\* then rounded
FRound(r) == CHOOSE v \in {Nearest(x) : x \in {r}} : TRUE

FAdd(x, y) == FRound(Rat(x[1] * y[2] + y[1] * x[2], x[2] * y[2]))

FSub(x, y) == FRound(Rat(x[1] * y[2] - y[1] * x[2], x[2] * y[2]))

FMul(x, y) == FRound(Rat(x[1] * y[1], x[2] * y[2]))

\* x / y for y # 0 (a zero divisor is excluded from the inputs: spec 4.2
\* makes a0 # 0 a precondition of Filter_Init)
FDiv(x, y) == FRound(Rat(x[1] * y[2], x[2] * y[1]))

(***************************************************************************)
(* Ring buffer of floats (contract of spec.md 4.1).  A buffer is its       *)
(* logical content q, oldest (front) first, with two records of what was   *)
(* done to it since rb_initialize_F: fault, set by a failed operation (a   *)
(* push on a full buffer or a pop on an empty one), and peak, the greatest *)
(* number of elements it has held.                                         *)
(***************************************************************************)
RB_LENGTH_F == 8

Max(m, n) == IF m > n THEN m ELSE n

rb_initialize_F(rb) == [q |-> <<>>, fault |-> FALSE, peak |-> 0]

rb_length_F(rb) == Len(rb.q)

rb_push_back_F(rb, v) ==
    IF Len(rb.q) < RB_LENGTH_F
    THEN [rb EXCEPT !.q = Append(@, v), !.peak = Max(@, Len(rb.q) + 1)]
    ELSE [rb EXCEPT !.fault = TRUE]

rb_push_front_F(rb, v) ==
    IF Len(rb.q) < RB_LENGTH_F
    THEN [rb EXCEPT !.q = <<v>> \o @, !.peak = Max(@, Len(rb.q) + 1)]
    ELSE [rb EXCEPT !.fault = TRUE]

\* a pop yields the buffer after the pop (rb) and the removed element (v)
rb_pop_front_F(rb) ==
    IF Len(rb.q) = 0
    THEN [rb |-> [rb EXCEPT !.fault = TRUE], v |-> Zero]
    ELSE [rb |-> [rb EXCEPT !.q = Tail(@)], v |-> Head(rb.q)]

rb_pop_back_F(rb) ==
    IF Len(rb.q) = 0
    THEN [rb |-> [rb EXCEPT !.fault = TRUE], v |-> Zero]
    ELSE [rb |-> [rb EXCEPT !.q = SubSeq(@, 1, Len(@) - 1)], v |-> rb.q[Len(rb.q)]]

rb_get_F(rb, index) ==
    IF index >= 0 /\ index < Len(rb.q) THEN rb.q[index + 1] ELSE Zero

(***************************************************************************)
(* Filter_Init (Filter.c 51-70)                                            *)
(***************************************************************************)
\* lines 54-57: the four buffers are emptied
Init_Begin(f) ==
    [numerator   |-> rb_initialize_F(f.numerator),
     denominator |-> rb_initialize_F(f.denominator),
     out_list    |-> rb_initialize_F(f.out_list),
     in_list     |-> rb_initialize_F(f.in_list)]

\* the condition of the for loop, line 60; i is a uint8_t
Init_Cond(i, order) == i <= order

\* the body of the for loop, lines 62-66
Init_Iter(f, numerator_coeffs, denominator_coeffs, i) ==
    [numerator   |-> rb_push_back_F(f.numerator, numerator_coeffs[i + 1]),
     denominator |-> rb_push_back_F(f.denominator, denominator_coeffs[i + 1]),
     in_list     |-> rb_push_back_F(f.in_list, Zero),
     out_list    |-> rb_push_back_F(f.out_list, Zero)]

\* the for loop, lines 60-67; i++ wraps at 256
RECURSIVE Init_Loop(_, _, _, _, _)
Init_Loop(f, numerator_coeffs, denominator_coeffs, order, i) ==
    IF Init_Cond(i, order)
    THEN Init_Loop(Init_Iter(f, numerator_coeffs, denominator_coeffs, i),
                   numerator_coeffs, denominator_coeffs, order, (i + 1) % 256)
    ELSE f

\* faulty variant: the four rb_initialize_F calls of lines 54-57 are left out
Filter_Init_NoReset(f, numerator_coeffs, denominator_coeffs, order) ==
    Init_Loop(f, numerator_coeffs, denominator_coeffs, order, 0)

Filter_Init(f, numerator_coeffs, denominator_coeffs, order) ==
    Init_Loop(Init_Begin(f), numerator_coeffs, denominator_coeffs, order, 0)

(***************************************************************************)
(* Filter_ShiftBy (Filter.c 78-96).  The state of a call is the filter f   *)
(* and the local temp_shift, of which only in_list and out_list are used.  *)
(***************************************************************************)
\* lines 80-82: temp_shift is a local; whatever it holds, its lists are emptied
Shift_Begin(f) ==
    [f          |-> f,
     temp_shift |-> [in_list  |-> rb_initialize_F(f.in_list),
                     out_list |-> rb_initialize_F(f.out_list)]]

\* the condition of the first while loop, line 85
Shift_Unload_Cond(sh) == rb_length_F(sh.f.in_list) # 0

\* the body of the first while loop, lines 86-87: one sample of each list
\* goes to the temporary
Shift_Unload_Iter(sh) ==
    LET pin  == rb_pop_front_F(sh.f.in_list)
        pout == rb_pop_front_F(sh.f.out_list)
    IN  [f          |-> [sh.f EXCEPT !.in_list = pin.rb, !.out_list = pout.rb],
         temp_shift |-> [in_list  |-> rb_push_back_F(sh.temp_shift.in_list, pin.v),
                         out_list |-> rb_push_back_F(sh.temp_shift.out_list, pout.v)]]

RECURSIVE Shift_Unload(_)
Shift_Unload(sh) ==
    IF Shift_Unload_Cond(sh) THEN Shift_Unload(Shift_Unload_Iter(sh)) ELSE sh

\* the condition of the second while loop, line 90
Shift_Reload_Cond(sh) == rb_length_F(sh.temp_shift.in_list) # 0

\* faulty variant: out_list gets its sample back unshifted
Shift_Reload_Iter_InOnly(sh, shift_amount) ==
    LET pin  == rb_pop_front_F(sh.temp_shift.in_list)
        pout == rb_pop_front_F(sh.temp_shift.out_list)
    IN  [f          |-> [sh.f EXCEPT
                            !.in_list  = rb_push_back_F(@, FAdd(pin.v, shift_amount)),
                            !.out_list = rb_push_back_F(@, pout.v)],
         temp_shift |-> [in_list |-> pin.rb, out_list |-> pout.rb]]

\* faulty variant: the sample taken from the temporary is dropped and
\* shift_amount itself is stored
Shift_Reload_Iter_Overwrite(sh, shift_amount) ==
    LET pin  == rb_pop_front_F(sh.temp_shift.in_list)
        pout == rb_pop_front_F(sh.temp_shift.out_list)
    IN  [f          |-> [sh.f EXCEPT
                            !.in_list  = rb_push_back_F(@, shift_amount),
                            !.out_list = rb_push_back_F(@, shift_amount)],
         temp_shift |-> [in_list |-> pin.rb, out_list |-> pout.rb]]

\* the body of the second while loop, lines 91-92: one sample of each list
\* comes back with shift_amount added
Shift_Reload_Iter(sh, shift_amount) ==
    LET pin  == rb_pop_front_F(sh.temp_shift.in_list)
        pout == rb_pop_front_F(sh.temp_shift.out_list)
    IN  [f          |-> [sh.f EXCEPT
                            !.in_list  = rb_push_back_F(@, FAdd(pin.v, shift_amount)),
                            !.out_list = rb_push_back_F(@, FAdd(pout.v, shift_amount))],
         temp_shift |-> [in_list |-> pin.rb, out_list |-> pout.rb]]

RECURSIVE Shift_Reload(_, _)
Shift_Reload(sh, shift_amount) ==
    IF Shift_Reload_Cond(sh)
    THEN Shift_Reload(Shift_Reload_Iter(sh, shift_amount), shift_amount)
    ELSE sh

\* the whole call: the filter and the temporary as the call leaves them
Filter_ShiftBy_Run(f, shift_amount) ==
    Shift_Reload(Shift_Unload(Shift_Begin(f)), shift_amount)

\* faulty variant: the samples come back in reverse order
Filter_ShiftBy_Reversed(f, shift_amount) ==
    [Filter_ShiftBy_Run(f, shift_amount).f EXCEPT
        !.in_list.q  = [i \in 1..Len(@) |-> @[Len(@) + 1 - i]],
        !.out_list.q = [i \in 1..Len(@) |-> @[Len(@) + 1 - i]]]

Filter_ShiftBy(f, shift_amount) == Filter_ShiftBy_Run(f, shift_amount).f

(***************************************************************************)
(* Filter_SetTo (Filter.c 104-120)                                         *)
(***************************************************************************)
\* the condition of the for loop, line 110; i and length are uint8_t
SetTo_Cond(i, length) == i < length

\* faulty variant: the new sample is pushed before the old one is popped
SetTo_Iter_PushFirst(f, amount) ==
    [f EXCEPT
        !.in_list  = rb_pop_front_F(rb_push_back_F(@, amount)).rb,
        !.out_list = rb_pop_front_F(rb_push_back_F(@, amount)).rb]

\* the body of the for loop, lines 112-115
SetTo_Iter(f, amount) ==
    [f EXCEPT
        !.in_list  = rb_push_back_F(rb_pop_front_F(@).rb, amount),
        !.out_list = rb_push_back_F(rb_pop_front_F(@).rb, amount)]

\* the for loop, lines 110-117; i++ wraps at 256
RECURSIVE SetTo_Loop(_, _, _, _)
SetTo_Loop(f, amount, length, i) ==
    IF SetTo_Cond(i, length)
    THEN SetTo_Loop(SetTo_Iter(f, amount), amount, length, (i + 1) % 256)
    ELSE f

\* faulty variant: the loop stops one element early
Filter_SetTo_Short(f, amount) ==
    SetTo_Loop(f, amount, rb_length_F(f.in_list) - 1, 0)

\* faulty variant: out_list is left as it was
Filter_SetTo_InOnly(f, amount) ==
    [SetTo_Loop(f, amount, rb_length_F(f.in_list), 0) EXCEPT !.out_list = f.out_list]

Filter_SetTo(f, amount) ==
    SetTo_Loop(f, amount, rb_length_F(f.in_list), 0)

(***************************************************************************)
(* Filter_Value (Filter.c 128-218)                                         *)
(***************************************************************************)
\* faulty variant: the oldest input is not popped (line 140 left out)
Value_Begin_KeepOldest(f, value) ==
    LET length == rb_length_F(f.numerator)
        pb0    == rb_pop_front_F(f.numerator)
        pa0    == rb_pop_front_F(f.denominator)
        pout   == rb_pop_front_F(f.out_list)
    IN  [f       |-> [numerator   |-> rb_push_back_F(pb0.rb, pb0.v),
                      denominator |-> rb_push_back_F(pa0.rb, pa0.v),
                      in_list     |-> f.in_list,
                      out_list    |-> pout.rb],
         length  |-> length,
         a0      |-> pa0.v,
         in_n    |-> value,
         in_sum  |-> FAdd(Zero, FMul(pb0.v, value)),
         out_sum |-> Zero]

\* faulty variant: the input popped at line 140 is used in place of value
Value_Begin_StoredInput(f, value) ==
    LET length == rb_length_F(f.numerator)
        pin    == rb_pop_front_F(f.in_list)
        pb0    == rb_pop_front_F(f.numerator)
        pa0    == rb_pop_front_F(f.denominator)
        pout   == rb_pop_front_F(f.out_list)
    IN  [f       |-> [numerator   |-> rb_push_back_F(pb0.rb, pb0.v),
                      denominator |-> rb_push_back_F(pa0.rb, pa0.v),
                      in_list     |-> pin.rb,
                      out_list    |-> pout.rb],
         length  |-> length,
         a0      |-> pa0.v,
         in_n    |-> pin.v,
         in_sum  |-> FAdd(Zero, FMul(pb0.v, pin.v)),
         out_sum |-> Zero]

\* lines 131-164: drop the oldest input and output, rotate b0 and a0 to the
\* back of the coefficient buffers, start the sums
Value_Begin(f, value) ==
    LET length == rb_length_F(f.numerator)
        pin    == rb_pop_front_F(f.in_list)
        pb0    == rb_pop_front_F(f.numerator)
        pa0    == rb_pop_front_F(f.denominator)
        pout   == rb_pop_front_F(f.out_list)
    IN  [f       |-> [numerator   |-> rb_push_back_F(pb0.rb, pb0.v),
                      denominator |-> rb_push_back_F(pa0.rb, pa0.v),
                      in_list     |-> pin.rb,
                      out_list    |-> pout.rb],
         length  |-> length,
         a0      |-> pa0.v,
         in_n    |-> value,
         in_sum  |-> FAdd(Zero, FMul(pb0.v, value)),
         out_sum |-> Zero]

\* faulty variant: the samples are walked from the oldest to the newest
Value_Iter_OldestFirst(st) ==
    LET pnum == rb_pop_front_F(st.f.numerator)
        pden == rb_pop_front_F(st.f.denominator)
        pin  == rb_pop_front_F(st.f.in_list)
        pout == rb_pop_front_F(st.f.out_list)
    IN  [st EXCEPT
            !.f       = [numerator   |-> rb_push_back_F(pnum.rb, pnum.v),
                         denominator |-> rb_push_back_F(pden.rb, pden.v),
                         in_list     |-> rb_push_back_F(pin.rb, pin.v),
                         out_list    |-> rb_push_back_F(pout.rb, pout.v)],
            !.in_sum  = FAdd(@, FMul(pnum.v, pin.v)),
            !.out_sum = FAdd(@, FMul(pden.v, pout.v))]

\* faulty variant: the coefficients are put back where they were taken
Value_Iter_NoRotate(st) ==
    LET pnum == rb_pop_front_F(st.f.numerator)
        pden == rb_pop_front_F(st.f.denominator)
        pin  == rb_pop_back_F(st.f.in_list)
        pout == rb_pop_back_F(st.f.out_list)
    IN  [st EXCEPT
            !.f       = [numerator   |-> rb_push_front_F(pnum.rb, pnum.v),
                         denominator |-> rb_push_front_F(pden.rb, pden.v),
                         in_list     |-> rb_push_front_F(pin.rb, pin.v),
                         out_list    |-> rb_push_front_F(pout.rb, pout.v)],
            !.in_sum  = FAdd(@, FMul(pnum.v, pin.v)),
            !.out_sum = FAdd(@, FMul(pden.v, pout.v))]

\* one iteration of the for loop, lines 171-197: the next coefficients are
\* taken from the front and put at the back, the next samples are taken from
\* the back and put at the front
Value_Iter(st) ==
    LET pnum == rb_pop_front_F(st.f.numerator)
        pden == rb_pop_front_F(st.f.denominator)
        pin  == rb_pop_back_F(st.f.in_list)
        pout == rb_pop_back_F(st.f.out_list)
    IN  [st EXCEPT
            !.f       = [numerator   |-> rb_push_back_F(pnum.rb, pnum.v),
                         denominator |-> rb_push_back_F(pden.rb, pden.v),
                         in_list     |-> rb_push_front_F(pin.rb, pin.v),
                         out_list    |-> rb_push_front_F(pout.rb, pout.v)],
            !.in_sum  = FAdd(@, FMul(pnum.v, pin.v)),
            !.out_sum = FAdd(@, FMul(pden.v, pout.v))]

\* variant: the loop runs over every stored sample, the newest included
Value_Cond_WholeLength(st, i) == i < st.length

\* the for loop, line 167: i is a uint8_t, length - 1 is computed as an int
Value_Cond(st, i) == i < st.length - 1

RECURSIVE Value_Loop(_, _)
Value_Loop(st, i) ==
    IF Value_Cond(st, i)
    THEN Value_Loop(Value_Iter(st), (i + 1) % 256)
    ELSE st

\* faulty variant: the two new samples are put at the front
Value_End_PushFront(st) ==
    LET out_val == FDiv(FSub(st.in_sum, st.out_sum), st.a0)
    IN  [f       |-> [st.f EXCEPT
                        !.in_list  = rb_push_front_F(@, st.in_n),
                        !.out_list = rb_push_front_F(@, out_val)],
         ret     |-> out_val,
         printed |-> <<out_val>>]

\* lines 203-217: the output, the line printed, and the two new samples
Value_End(st) ==
    LET out_val == FDiv(FSub(st.in_sum, st.out_sum), st.a0)
    IN  [f       |-> [st.f EXCEPT
                        !.in_list  = rb_push_back_F(@, st.in_n),
                        !.out_list = rb_push_back_F(@, out_val)],
         ret     |-> out_val,
         printed |-> <<out_val>>]

Filter_Value(f, value) == Value_End(Value_Loop(Value_Begin(f, value), 0))

(***************************************************************************)
(* Filter_Last_Output (Filter.c 224-228)                                   *)
(***************************************************************************)
\* faulty variant: index 0, the oldest output
Filter_Last_Output_Oldest(f) == rb_get_F(f.out_list, 0)

Filter_Last_Output(f) == rb_get_F(f.out_list, rb_length_F(f.out_list) - 1)

(***************************************************************************)
(* print_rb, Filter.c 232-242.  What it writes is the sequence of its      *)
(* printf calls: a literal text, or the float a "%f, " call formats.       *)
(***************************************************************************)
\* line 234: printf("\n")
print_rb_Begin(print_f) == [print_f |-> print_f, printed |-> <<"\n">>]

\* the for loop, line 235: i is a uint8_t, the length is read at every pass
print_rb_Cond(st, i) == i < rb_length_F(st.print_f)

\* lines 237-239: the front element is popped, printed and pushed back
print_rb_Iter(st) ==
    LET p == rb_pop_front_F(st.print_f)
    IN  [print_f |-> rb_push_back_F(p.rb, p.v),
         printed |-> Append(st.printed, p.v)]

RECURSIVE print_rb_Loop(_, _)
print_rb_Loop(st, i) ==
    IF print_rb_Cond(st, i) THEN print_rb_Loop(print_rb_Iter(st), (i + 1) % 256)
    ELSE st

\* line 241: printf("\n\n")
print_rb_End(st) == [st EXCEPT !.printed = Append(@, "\n\n")]

print_rb(print_f) == print_rb_End(print_rb_Loop(print_rb_Begin(print_f), 0))

(***************************************************************************)
(* The caller: one Filter_Data_t object, Filter_Init first, then any       *)
(* sequence of calls (spec.md 4.2, state machine; section 6).              *)
(***************************************************************************)
Buf(q) == [q |-> q, fault |-> FALSE, peak |-> Len(q)]

Coeffs(s) == [i \in 1..Len(s) |-> F(s[i])]

\* the coefficients of the comment of Filter_Init, Filter.c 41-44
MovingAverage5 == <<Coeffs(<<5, 0, 0, 0, 0>>), Coeffs(<<1, 1, 1, 1, 1>>)>>

\* the identity filter of spec.md section 8
Identity == <<Coeffs(<<1>>), Coeffs(<<1>>)>>

\* the coefficient arrays the caller passes to Filter_Init: <<b, a>> with
\* a[1] a power of two up to sign
FilterBank ==
    { <<Coeffs(<<1>>),       Coeffs(<<1>>)>>,
      <<Coeffs(<<2>>),       Coeffs(<<1>>)>>,
      <<Coeffs(<<3>>),       Coeffs(<<-2>>)>>,
      <<Coeffs(<<1, 1>>),    Coeffs(<<2, 0>>)>>,
      <<Coeffs(<<1, 0>>),    Coeffs(<<2, -1>>)>>,
      <<Coeffs(<<1, 2>>),    Coeffs(<<1, 1>>)>>,
      <<Coeffs(<<0, 1, 0>>), Coeffs(<<1, 0, 0>>)>>,
      <<Coeffs(<<1, 2, 0>>), Coeffs(<<2, 1, -1>>)>>,
      <<Coeffs(<<1, 2, 3>>), Coeffs(<<-1, 3, 4>>)>>,
      MovingAverage5 }

ValueInputs == {F(1), F(-2)}

ShiftAmounts == {F(1), F(-3)}

SetAmounts == {F(-2), F(3)}

\* a Filter_Data_t before Filter_Init: its content is whatever the memory holds
Uninitialized ==
    { [numerator |-> Buf(<<>>), denominator |-> Buf(<<>>),
       in_list |-> Buf(<<>>), out_list |-> Buf(<<>>)],
      [numerator |-> Buf(<<F(7)>>), denominator |-> Buf(<<F(0), F(7)>>),
       in_list |-> Buf(<<F(7), F(7), F(7)>>), out_list |-> Buf(<<>>)] }

NoCall(f) == [op |-> "none", arg |-> Zero, pre |-> f, ret |-> Zero]

\* no call in progress.  pc is the loop the call is in, i and length are the
\* locals of that name, arg is shift_amount or amount, list names the buffer
\* passed to print_rb, temp_shift is the local of
\* Filter_ShiftBy, st the locals of Filter_Value, and iters counts the
\* iterations the first and the second loop of the call have made
NoRun ==
    [pc         |-> "idle",
     i          |-> 0,
     length     |-> 0,
     arg        |-> Zero,
     list       |-> "none",
     temp_shift |-> [in_list |-> Buf(<<>>), out_list |-> Buf(<<>>)],
     st         |-> [length |-> 0, a0 |-> Zero, in_n |-> Zero,
                     in_sum |-> Zero, out_sum |-> Zero],
     iters      |-> <<0, 0>>]

Init ==
    /\ p_filt \in Uninitialized
    /\ init_args = [b |-> <<>>, a |-> <<>>, order |-> 0]
    /\ last = NoCall(p_filt)
    /\ prev = NoCall(p_filt)
    /\ printed = <<>>
    /\ calls = 0
    /\ inits = 0
    /\ run = NoRun

Ready == inits > 0

CallInit ==
    /\ calls < MaxCalls
    /\ inits < MaxInits
    /\ \E c \in FilterBank :
          /\ p_filt' = Filter_Init(p_filt, c[1], c[2], Len(c[1]) - 1)
          /\ init_args' = [b |-> c[1], a |-> c[2], order |-> Len(c[1]) - 1]
    /\ last' = [op |-> "Init", arg |-> Zero, pre |-> p_filt, ret |-> Zero]
    /\ prev' = last
    /\ printed' = <<>>
    /\ calls' = calls + 1
    /\ inits' = inits + 1
    /\ UNCHANGED run

CallValue ==
    /\ Ready
    /\ calls < MaxCalls
    /\ \E value \in ValueInputs :
          LET r == Filter_Value(p_filt, value)
          IN  /\ p_filt' = r.f
              /\ last' = [op |-> "Value", arg |-> value, pre |-> p_filt, ret |-> r.ret]
              /\ printed' = r.printed
    /\ prev' = last
    /\ calls' = calls + 1
    /\ UNCHANGED <<init_args, inits, run>>

CallShiftBy ==
    /\ Ready
    /\ calls < MaxCalls
    /\ \E shift_amount \in ShiftAmounts :
          /\ p_filt' = Filter_ShiftBy(p_filt, shift_amount)
          /\ last' = [op |-> "ShiftBy", arg |-> shift_amount, pre |-> p_filt, ret |-> Zero]
    /\ prev' = last
    /\ printed' = <<>>
    /\ calls' = calls + 1
    /\ UNCHANGED <<init_args, inits, run>>

CallSetTo ==
    /\ Ready
    /\ calls < MaxCalls
    /\ \E amount \in SetAmounts :
          /\ p_filt' = Filter_SetTo(p_filt, amount)
          /\ last' = [op |-> "SetTo", arg |-> amount, pre |-> p_filt, ret |-> Zero]
    /\ prev' = last
    /\ printed' = <<>>
    /\ calls' = calls + 1
    /\ UNCHANGED <<init_args, inits, run>>

CallLastOutput ==
    /\ Ready
    /\ calls < MaxCalls
    /\ last' = [op |-> "Last_Output", arg |-> Zero, pre |-> p_filt,
                ret |-> Filter_Last_Output(p_filt)]
    /\ prev' = last
    /\ printed' = <<>>
    /\ calls' = calls + 1
    /\ UNCHANGED <<p_filt, init_args, inits, run>>

\* the buffers the caller prints: the two that the print_rb calls left in
\* comments in Filter_Value name (lines 137, 157)
PrintedLists == {"in_list", "out_list"}

\* print_rb may be called on the buffers of a filter at any time
Call_print_rb ==
    /\ calls < MaxCalls
    /\ \E list \in PrintedLists :
          LET r == print_rb(p_filt[list])
          IN  /\ p_filt' = [p_filt EXCEPT ![list] = r.print_f]
              /\ printed' = r.printed
    /\ last' = [op |-> "print_rb", arg |-> Zero, pre |-> p_filt, ret |-> Zero]
    /\ prev' = last
    /\ calls' = calls + 1
    /\ UNCHANGED <<init_args, inits, run>>

Next ==
    \/ CallInit
    \/ CallValue
    \/ CallShiftBy
    \/ CallSetTo
    \/ CallLastOutput
    \/ Call_print_rb

Spec == Init /\ [][Next]_vars

(***************************************************************************)
(* A caller that only initialises and shifts, with shift amounts large     *)
(* enough for a float addition to round: 2^24 + 1 is not a float.          *)
(***************************************************************************)
WideShiftAmounts == {F(0), F(1), F(-1), F(16777216), F(-16777216)}

CallShiftByWide ==
    /\ Ready
    /\ calls < MaxCalls
    /\ \E shift_amount \in WideShiftAmounts :
          /\ p_filt' = Filter_ShiftBy(p_filt, shift_amount)
          /\ last' = [op |-> "ShiftBy", arg |-> shift_amount, pre |-> p_filt, ret |-> Zero]
    /\ prev' = last
    /\ printed' = <<>>
    /\ calls' = calls + 1
    /\ UNCHANGED <<init_args, inits, run>>

NextShift ==
    \/ CallInit
    \/ CallShiftByWide

SpecShift == Init /\ [][NextShift]_vars

(***************************************************************************)
(* The calls followed loop iteration by loop iteration.  A call action     *)
(* runs the statements before the first loop, an Iter action one pass of   *)
(* the loop body when the loop condition holds, and an Exit or Return      *)
(* action leaves the loop when it does not.  The loop counters i are       *)
(* uint8_t and wrap at 256; run.iters counts the passes, up to             *)
(* MaxIterCount.                                                           *)
(***************************************************************************)
Min(x, y) == IF x < y THEN x ELSE y

Idle == run.pc = "idle"

Counted(n) == Min(n + 1, MaxIterCount)

Returned == [NoRun EXCEPT !.iters = run.iters]

\* Filter.c 51-57: entry of Filter_Init and the three rb_initialize_F calls
StepCallInit(c, order) ==
    /\ Idle
    /\ calls < MaxStepCalls
    /\ inits < MaxInits
    /\ p_filt' = Init_Begin(p_filt)
    /\ init_args' = [b |-> c[1], a |-> c[2], order |-> order]
    /\ last' = [op |-> "Init", arg |-> Zero, pre |-> p_filt, ret |-> Zero]
    /\ prev' = last
    /\ printed' = <<>>
    /\ calls' = calls + 1
    /\ inits' = inits + 1
    /\ run' = [NoRun EXCEPT !.pc = "init"]

StepCallInitBank == \E c \in FilterBank : StepCallInit(c, Len(c[1]) - 1)

\* Filter.c 60-67: one pass of the loop of Filter_Init
StepInitIter ==
    /\ run.pc = "init"
    /\ Init_Cond(run.i, init_args.order)
    /\ p_filt' = Init_Iter(p_filt, init_args.b, init_args.a, run.i)
    /\ run' = [run EXCEPT !.i = (@ + 1) % 256, !.iters[1] = Counted(@)]
    /\ UNCHANGED <<init_args, last, prev, printed, calls, inits>>

\* Filter.c 60, 70: the loop condition fails and Filter_Init returns
StepInitReturn ==
    /\ run.pc = "init"
    /\ ~Init_Cond(run.i, init_args.order)
    /\ run' = Returned
    /\ UNCHANGED <<p_filt, init_args, last, prev, printed, calls, inits>>

\* Filter.c 78-82: entry of Filter_ShiftBy
StepCallShiftBy ==
    /\ Idle
    /\ Ready
    /\ calls < MaxStepCalls
    /\ \E shift_amount \in ShiftAmounts :
          LET sh == Shift_Begin(p_filt)
          IN  /\ p_filt' = sh.f
              /\ run' = [NoRun EXCEPT !.pc = "unload", !.arg = shift_amount,
                                      !.temp_shift = sh.temp_shift]
              /\ last' = [op |-> "ShiftBy", arg |-> shift_amount, pre |-> p_filt, ret |-> Zero]
    /\ prev' = last
    /\ printed' = <<>>
    /\ calls' = calls + 1
    /\ UNCHANGED <<init_args, inits>>

\* Filter.c 85-88: one pass of the first loop of Filter_ShiftBy
StepUnloadIter ==
    LET sh == [f |-> p_filt, temp_shift |-> run.temp_shift]
    IN  /\ run.pc = "unload"
        /\ Shift_Unload_Cond(sh)
        /\ p_filt' = Shift_Unload_Iter(sh).f
        /\ run' = [run EXCEPT !.temp_shift = Shift_Unload_Iter(sh).temp_shift,
                              !.iters[1] = Counted(@)]
        /\ UNCHANGED <<init_args, last, prev, printed, calls, inits>>

\* Filter.c 85, 90: the first loop ends and the second begins
StepUnloadExit ==
    /\ run.pc = "unload"
    /\ ~Shift_Unload_Cond([f |-> p_filt, temp_shift |-> run.temp_shift])
    /\ run' = [run EXCEPT !.pc = "reload"]
    /\ UNCHANGED <<p_filt, init_args, last, prev, printed, calls, inits>>

\* Filter.c 90-93: one pass of the second loop of Filter_ShiftBy
StepReloadIter ==
    LET sh == [f |-> p_filt, temp_shift |-> run.temp_shift]
    IN  /\ run.pc = "reload"
        /\ Shift_Reload_Cond(sh)
        /\ p_filt' = Shift_Reload_Iter(sh, run.arg).f
        /\ run' = [run EXCEPT !.temp_shift = Shift_Reload_Iter(sh, run.arg).temp_shift,
                              !.iters[2] = Counted(@)]
        /\ UNCHANGED <<init_args, last, prev, printed, calls, inits>>

\* Filter.c 90, 96: the second loop ends and Filter_ShiftBy returns
StepShiftReturn ==
    /\ run.pc = "reload"
    /\ ~Shift_Reload_Cond([f |-> p_filt, temp_shift |-> run.temp_shift])
    /\ run' = Returned
    /\ UNCHANGED <<p_filt, init_args, last, prev, printed, calls, inits>>

\* Filter.c 104-107: entry of Filter_SetTo, length read once
StepCallSetTo ==
    /\ Idle
    /\ Ready
    /\ calls < MaxStepCalls
    /\ \E amount \in SetAmounts :
          /\ run' = [NoRun EXCEPT !.pc = "setto", !.arg = amount,
                                  !.length = rb_length_F(p_filt.in_list)]
          /\ last' = [op |-> "SetTo", arg |-> amount, pre |-> p_filt, ret |-> Zero]
    /\ prev' = last
    /\ printed' = <<>>
    /\ calls' = calls + 1
    /\ UNCHANGED <<p_filt, init_args, inits>>

\* Filter.c 110-116: one pass of the loop of Filter_SetTo
StepSetToIter ==
    /\ run.pc = "setto"
    /\ SetTo_Cond(run.i, run.length)
    /\ p_filt' = SetTo_Iter(p_filt, run.arg)
    /\ run' = [run EXCEPT !.i = (@ + 1) % 256, !.iters[1] = Counted(@)]
    /\ UNCHANGED <<init_args, last, prev, printed, calls, inits>>

\* Filter.c 110, 120: the loop condition fails and Filter_SetTo returns
StepSetToReturn ==
    /\ run.pc = "setto"
    /\ ~SetTo_Cond(run.i, run.length)
    /\ run' = Returned
    /\ UNCHANGED <<p_filt, init_args, last, prev, printed, calls, inits>>

\* Filter.c 128-164: entry of Filter_Value up to the loop
StepCallValue ==
    /\ Idle
    /\ Ready
    /\ calls < MaxStepCalls
    /\ \E value \in ValueInputs :
          LET st == Value_Begin(p_filt, value)
          IN  /\ p_filt' = st.f
              /\ run' = [NoRun EXCEPT !.pc = "value", !.arg = value,
                                      !.length = st.length, !.st = st]
              /\ last' = [op |-> "Value", arg |-> value, pre |-> p_filt, ret |-> Zero]
    /\ prev' = last
    /\ printed' = <<>>
    /\ calls' = calls + 1
    /\ UNCHANGED <<init_args, inits>>

\* Filter.c 167-198: one pass of the loop of Filter_Value
StepValueIter ==
    /\ run.pc = "value"
    /\ Value_Cond(run.st, run.i)
    /\ p_filt' = Value_Iter(run.st).f
    /\ run' = [run EXCEPT !.st = Value_Iter(run.st), !.i = (@ + 1) % 256,
                          !.iters[1] = Counted(@)]
    /\ UNCHANGED <<init_args, last, prev, printed, calls, inits>>

\* Filter.c 167, 203-217: the loop condition fails, the output is computed,
\* printed and stored, and Filter_Value returns it
StepValueReturn ==
    /\ run.pc = "value"
    /\ ~Value_Cond(run.st, run.i)
    /\ p_filt' = Value_End(run.st).f
    /\ printed' = Value_End(run.st).printed
    /\ last' = [last EXCEPT !.ret = Value_End(run.st).ret]
    /\ run' = Returned
    /\ UNCHANGED <<init_args, prev, calls, inits>>

\* Filter.c 224-228: Filter_Last_Output has no loop
StepLastOutput ==
    /\ Idle
    /\ Ready
    /\ calls < MaxStepCalls
    /\ last' = [op |-> "Last_Output", arg |-> Zero, pre |-> p_filt,
                ret |-> Filter_Last_Output(p_filt)]
    /\ prev' = last
    /\ printed' = <<>>
    /\ calls' = calls + 1
    /\ run' = [NoRun EXCEPT !.iters = <<0, 0>>]
    /\ UNCHANGED <<p_filt, init_args, inits>>

\* Filter.c 232-234: entry of print_rb and its first printf
StepCall_print_rb ==
    /\ Idle
    /\ calls < MaxStepCalls
    /\ \E list \in PrintedLists :
          /\ run' = [NoRun EXCEPT !.pc = "print", !.list = list]
          /\ printed' = print_rb_Begin(p_filt[list]).printed
    /\ last' = [op |-> "print_rb", arg |-> Zero, pre |-> p_filt, ret |-> Zero]
    /\ prev' = last
    /\ calls' = calls + 1
    /\ UNCHANGED <<p_filt, init_args, inits>>

\* Filter.c 235-240: one pass of the loop of print_rb
Step_print_rb_Iter ==
    LET st == [print_f |-> p_filt[run.list], printed |-> printed]
    IN  /\ run.pc = "print"
        /\ print_rb_Cond(st, run.i)
        /\ p_filt' = [p_filt EXCEPT ![run.list] = print_rb_Iter(st).print_f]
        /\ printed' = print_rb_Iter(st).printed
        /\ run' = [run EXCEPT !.i = (@ + 1) % 256, !.iters[1] = Counted(@)]
        /\ UNCHANGED <<init_args, last, prev, calls, inits>>

\* Filter.c 235, 241-242: the loop condition fails, the last printf, return
Step_print_rb_Return ==
    LET st == [print_f |-> p_filt[run.list], printed |-> printed]
    IN  /\ run.pc = "print"
        /\ ~print_rb_Cond(st, run.i)
        /\ printed' = print_rb_End(st).printed
        /\ run' = Returned
        /\ UNCHANGED <<p_filt, init_args, last, prev, calls, inits>>

\* the steps of a call in progress, which the processor keeps taking
NextInCall ==
    \/ StepInitIter
    \/ StepInitReturn
    \/ StepUnloadIter
    \/ StepUnloadExit
    \/ StepReloadIter
    \/ StepShiftReturn
    \/ StepSetToIter
    \/ StepSetToReturn
    \/ StepValueIter
    \/ StepValueReturn
    \/ Step_print_rb_Iter
    \/ Step_print_rb_Return

NextSteps ==
    \/ StepCallInitBank
    \/ StepCallShiftBy
    \/ StepCallSetTo
    \/ StepCallValue
    \/ StepLastOutput
    \/ StepCall_print_rb
    \/ NextInCall

SpecSteps == Init /\ [][NextSteps]_vars /\ WF_vars(NextInCall)

(***************************************************************************)
(* Filter_Init alone, called with any order a uint8_t can hold.  The       *)
(* coefficient arrays hold order + 1 ones.                                 *)
(***************************************************************************)
InitOrders == {0, 1, 2, 254, 255}

Ones(n) == [k \in 1..n |-> F(1)]

StepCallInitAnyOrder ==
    \E order \in InitOrders :
        StepCallInit(<<Ones(order + 1), Ones(order + 1)>>, order)

NextInitLoop ==
    \/ StepCallInitAnyOrder
    \/ StepInitIter
    \/ StepInitReturn

SpecInitLoop ==
    Init /\ [][NextInitLoop]_vars /\ WF_vars(StepInitIter \/ StepInitReturn)

(***************************************************************************)
(* Vocabulary of the properties.                                           *)
(***************************************************************************)
\* the i-th most recent element of a history, i = 1 for the tail
Recent(q, i) == q[Len(q) + 1 - i]

\* SUM of c[i] * (i-th most recent element of h), for i = from..N, where
\* c[0] is the first coefficient
RECURSIVE SumProducts(_, _, _, _)
SumProducts(c, h, from, N) ==
    IF from > N THEN Zero
    ELSE FAdd(FMul(c[from + 1], Recent(h, from)), SumProducts(c, h, from + 1, N))

\* SUM of all elements of a sequence of floats
RECURSIVE SumAll(_)
SumAll(c) == IF c = <<>> THEN Zero ELSE FAdd(Head(c), SumAll(Tail(c)))

\* the direct-form difference equation on the filter f as it is before the call
DifferenceEquation(f, value) ==
    LET b == f.numerator.q
        a == f.denominator.q
        N == Len(b) - 1
    IN  FDiv(FSub(FAdd(FMul(b[1], value), SumProducts(b, f.in_list.q, 1, N)),
                  SumProducts(a, f.out_list.q, 1, N)),
             a[1])

Lengths(f) ==
    <<Len(f.numerator.q), Len(f.denominator.q), Len(f.in_list.q), Len(f.out_list.q)>>

NoFault(f) ==
    /\ ~f.numerator.fault
    /\ ~f.denominator.fault
    /\ ~f.in_list.fault
    /\ ~f.out_list.fault

\* C1: Filter_Value returns (b0*value + SUM b_i*x[n-i] - SUM a_i*y[n-i]) / a0
\* over the samples stored before the call, x[n-1] and y[n-1] being the tails
\* of the two histories.
\* With numerator {5,0,0,0,0} and denominator {1,1,1,1,1} that is
\* 5*x[n] - (y[n-1] + y[n-2] + y[n-3] + y[n-4]).
C1_DifferenceEquation ==
    last.op = "Value" =>
        /\ last.ret = DifferenceEquation(last.pre, last.arg)
        /\ <<init_args.b, init_args.a>> = MovingAverage5 =>
              last.ret = FSub(FMul(F(5), last.arg),
                              FAdd(FAdd(Recent(last.pre.out_list.q, 1),
                                        Recent(last.pre.out_list.q, 2)),
                                   FAdd(Recent(last.pre.out_list.q, 3),
                                        Recent(last.pre.out_list.q, 4))))

\* a second-order call where the stored samples and the coefficients they
\* meet are pairwise different, so that the pairing order shows in the result
C1_Witness ==
    /\ last.op = "Value"
    /\ init_args.order = 2
    /\ last.pre.in_list.q[2] # last.pre.in_list.q[3]
    /\ last.pre.out_list.q[2] # last.pre.out_list.q[3]
    /\ init_args.b[2] # init_args.b[3]
    /\ init_args.a[2] # init_args.a[3]
    /\ init_args.a[1] # F(1)
    /\ last.ret # Zero

\* C1: the fifth output of the moving-average coefficients after Filter_Init
C1_WitnessFifthOutput ==
    /\ last.op = "Value"
    /\ prev.op = "Value"
    /\ <<init_args.b, init_args.a>> = MovingAverage5
    /\ inits = 1
    /\ calls = 6
    /\ \A i \in 1..4 : last.pre.out_list.q[i + 1] # Zero
    /\ last.pre.in_list.q[2] # Zero

\* C2: once Filter_Init has been called, between calls the four buffers all
\* hold exactly order+1 elements (and no buffer operation has failed).
C2_LengthInvariant ==
    Ready =>
        /\ Lengths(p_filt) = <<init_args.order + 1, init_args.order + 1,
                               init_args.order + 1, init_args.order + 1>>
        /\ NoFault(p_filt)

\* every operation has run on a filter of order 2
C2_Witness ==
    /\ calls = MaxCalls
    /\ init_args.order = 2
    /\ last.op = "Value"
    /\ prev.op \in {"ShiftBy", "SetTo", "Last_Output"}

\* C3: after Filter_Value calls the coefficient buffers read, front to back,
\* as the arrays passed to Filter_Init.
C3_CoefficientsStable ==
    Ready =>
        /\ p_filt.numerator.q = init_args.b
        /\ p_filt.denominator.q = init_args.a

\* two Filter_Value calls in a row on a filter whose coefficients differ
C3_Witness ==
    /\ last.op = "Value"
    /\ prev.op = "Value"
    /\ init_args.order = 2
    /\ init_args.b[1] # init_args.b[2]
    /\ init_args.a[1] # init_args.a[2]

\* C4: Filter_Value evicts the oldest element of each history, keeps the
\* others in order and puts value and the output at the tails.
C4_HistorySlides ==
    last.op = "Value" =>
        /\ p_filt.in_list.q = Append(Tail(last.pre.in_list.q), last.arg)
        /\ p_filt.out_list.q = Append(Tail(last.pre.out_list.q), last.ret)

\* a call on a second-order filter whose three stored inputs differ
C4_Witness ==
    /\ last.op = "Value"
    /\ init_args.order = 2
    /\ Cardinality({last.pre.in_list.q[i] : i \in 1..3} \cup {last.arg}) = 4
    /\ last.pre.out_list.q[1] # last.pre.out_list.q[2]

\* C5: Filter_Last_Output returns the tail of out_list, which right after a
\* Filter_Value call is the value that call returned, and changes no buffer.
C5_LastOutput ==
    last.op = "Last_Output" =>
        /\ last.ret = Recent(last.pre.out_list.q, 1)
        /\ prev.op = "Value" => last.ret = prev.ret
        /\ p_filt = last.pre

\* the output read back is not the oldest one
C5_Witness ==
    /\ last.op = "Last_Output"
    /\ prev.op = "Value"
    /\ init_args.order >= 1
    /\ last.ret # p_filt.out_list.q[1]

\* C6: Filter_Init leaves the coefficient buffers equal to the arrays passed,
\* in index order, and both histories equal to order+1 zeros, whatever the
\* filter held before.
C6_InitResets ==
    last.op = "Init" =>
        /\ p_filt.numerator = Buf(init_args.b)
        /\ p_filt.denominator = Buf(init_args.a)
        /\ p_filt.in_list = Buf([i \in 1..(init_args.order + 1) |-> Zero])
        /\ p_filt.out_list = Buf([i \in 1..(init_args.order + 1) |-> Zero])

\* Filter_Init on a Ready filter of another order with non-zero history
C6_Witness ==
    /\ last.op = "Init"
    /\ inits = 2
    /\ Len(last.pre.numerator.q) # init_args.order + 1
    /\ \E i \in 1..Len(last.pre.out_list.q) : last.pre.out_list.q[i] # Zero
    /\ \E i \in 1..Len(last.pre.in_list.q) : last.pre.in_list.q[i] # Zero

\* C7: Filter_ShiftBy adds shift_amount to the sample at every index of both
\* histories and leaves the coefficients and the four lengths as they were.
C7_ShiftBy ==
    last.op = "ShiftBy" =>
        /\ Lengths(p_filt) = Lengths(last.pre)
        /\ \A i \in 1..Len(last.pre.in_list.q) :
              p_filt.in_list.q[i] = FAdd(last.pre.in_list.q[i], last.arg)
        /\ \A i \in 1..Len(last.pre.out_list.q) :
              p_filt.out_list.q[i] = FAdd(last.pre.out_list.q[i], last.arg)
        /\ p_filt.numerator = last.pre.numerator
        /\ p_filt.denominator = last.pre.denominator

\* a shift of histories whose samples differ from index to index
C7_Witness ==
    /\ last.op = "ShiftBy"
    /\ init_args.order = 2
    /\ last.pre.in_list.q[1] # last.pre.in_list.q[3]
    /\ last.pre.out_list.q[1] # last.pre.out_list.q[3]
    /\ last.pre.in_list.q[1] # last.pre.out_list.q[1]

\* C8: after Filter_SetTo every element of both histories equals amount, and
\* the coefficients and the four lengths are as they were.
C8_SetTo ==
    last.op = "SetTo" =>
        /\ Lengths(p_filt) = Lengths(last.pre)
        /\ \A i \in 1..Len(p_filt.in_list.q) : p_filt.in_list.q[i] = last.arg
        /\ \A i \in 1..Len(p_filt.out_list.q) : p_filt.out_list.q[i] = last.arg
        /\ p_filt.numerator = last.pre.numerator
        /\ p_filt.denominator = last.pre.denominator

\* a reset of histories none of whose samples is amount
C8_Witness ==
    /\ last.op = "SetTo"
    /\ init_args.order = 2
    /\ \A i \in 1..3 : last.pre.in_list.q[i] # last.arg
    /\ \A i \in 1..3 : last.pre.out_list.q[i] # last.arg

\* C9: Filter_Last_Output right after Filter_SetTo(c) returns c, and a second
\* Filter_SetTo(c) right after the first leaves the filter as the first left it.
C9_SetToIdempotent ==
    /\ (last.op = "Last_Output" /\ prev.op = "SetTo") => last.ret = prev.arg
    /\ (last.op = "SetTo" /\ prev.op = "SetTo" /\ last.arg = prev.arg) =>
            p_filt = last.pre

\* the second of two equal resets, the first of which changed the newest output
C9_Witness ==
    /\ last.op = "SetTo"
    /\ prev.op = "SetTo"
    /\ last.arg = prev.arg
    /\ init_args.order >= 1
    /\ Recent(prev.pre.out_list.q, 1) # prev.arg
    /\ prev.pre.out_list.q[1] # prev.arg

\* C9: the read-back half of the case
C9_WitnessReadBack ==
    /\ last.op = "Last_Output"
    /\ prev.op = "SetTo"
    /\ Recent(prev.pre.out_list.q, 1) # prev.arg

\* the filter has unit gain at DC: its coefficient sums are equal
UnitDCGain == SumAll(init_args.b) = SumAll(init_args.a)

\* the value of Filter_Value(f, x - s) + s on the filter as it was before the
\* Filter_ShiftBy(f, s) recorded in prev
UnshiftedThenShifted ==
    FAdd(Filter_Value(prev.pre, FSub(last.arg, prev.arg)).ret, prev.arg)

\* C10 as stated: for any coefficients, Filter_ShiftBy(f, s) followed by
\* Filter_Value(f, x) returns Filter_Value(f, x - s) + s of the unshifted filter.
C10_ShiftInvarianceAnyCoefficients ==
    (last.op = "Value" /\ prev.op = "ShiftBy") => last.ret = UnshiftedThenShifted

\* C10 amended: the equality holds for the filters whose coefficient sums are
\* equal (SUM b_i = SUM a_i), recursive or not.
C10_ShiftInvarianceUnitGain ==
    (last.op = "Value" /\ prev.op = "ShiftBy" /\ UnitDCGain) =>
        last.ret = UnshiftedThenShifted

\* a shifted recursive filter of unit DC gain with non-zero output history
C10_Witness ==
    /\ last.op = "Value"
    /\ prev.op = "ShiftBy"
    /\ UnitDCGain
    /\ init_args.order >= 1
    /\ \E i \in 2..(init_args.order + 1) : init_args.a[i] # Zero
    /\ \E i \in 1..Len(prev.pre.out_list.q) : prev.pre.out_list.q[i] # Zero
    /\ last.ret # Filter_Value(prev.pre, last.arg).ret

\* C11: with order 0, numerator {1} and denominator {1}, every Filter_Value
\* call returns its argument, and Filter_Last_Output right after it returns
\* the same value.
C11_IdentityFilter ==
    <<init_args.b, init_args.a>> = Identity =>
        /\ last.op = "Value" => last.ret = last.arg
        /\ (last.op = "Last_Output" /\ prev.op = "Value") => last.ret = prev.arg

\* the identity filter read back after a call whose argument differs from
\* the sample it replaced
C11_Witness ==
    /\ <<init_args.b, init_args.a>> = Identity
    /\ last.op = "Last_Output"
    /\ prev.op = "Value"
    /\ prev.arg # prev.pre.in_list.q[1]
    /\ prev.arg # prev.pre.out_list.q[1]
    /\ prev.pre.in_list.q[1] # Zero

PeakAtMost(f, n) ==
    /\ f.numerator.peak <= n
    /\ f.denominator.peak <= n
    /\ f.in_list.peak <= n
    /\ f.out_list.peak <= n

\* C12: within the calls made on a filter of order N no buffer is popped while
\* empty and none is pushed while it holds N+1 elements (so none ever holds
\* more than N+1), Filter_ShiftBy's two temporary buffers included.
C12_NoBufferError ==
    Ready =>
        /\ NoFault(p_filt)
        /\ PeakAtMost(p_filt, init_args.order + 1)
        /\ last.op = "ShiftBy" =>
              LET temp_shift == Filter_ShiftBy_Run(last.pre, last.arg).temp_shift
              IN  /\ ~temp_shift.in_list.fault
                  /\ ~temp_shift.out_list.fault
                  /\ temp_shift.in_list.peak <= init_args.order + 1
                  /\ temp_shift.out_list.peak <= init_args.order + 1

\* a shift of a filter of order 0 that was initialised twice and has been
\* through Filter_Value
C12_Witness ==
    /\ last.op = "ShiftBy"
    /\ prev.op = "Value"
    /\ init_args.order = 0
    /\ inits = 2
    /\ Filter_ShiftBy_Run(last.pre, last.arg).temp_shift.in_list.peak = 1

\* C12: the same on a filter of order 4 after Filter_SetTo
C12_WitnessOrder4 ==
    /\ last.op = "Value"
    /\ prev.op = "SetTo"
    /\ init_args.order = 4

\* C13: Filter_Init returns for every order 0..255 after exactly order + 1
\* passes of its loop, one push into each of the four buffers per pass: a
\* call in progress has never made more than order + 1 passes, and a call
\* that has returned has made exactly order + 1.
C13_InitTerminates ==
    last.op = "Init" =>
        /\ run.iters[1] <= init_args.order + 1
        /\ Idle => run.iters[1] = init_args.order + 1

\* the same as a progress property: a Filter_Init call in progress returns
C13_InitReturns == (run.pc = "init") ~> Idle

\* the orders below 255, for which the loop condition i <= order can fail
C13_InitTerminatesBelow255 ==
    (last.op = "Init" /\ init_args.order < 255) =>
        /\ run.iters[1] <= init_args.order + 1
        /\ Idle => run.iters[1] = init_args.order + 1

\* the loop counts of the three looping operations on a filter of order N
LoopCounts ==
    LET N == init_args.order
    IN  /\ run.pc = "value" => run.iters[1] <= N
        /\ run.pc = "setto" => run.iters[1] <= N + 1
        /\ run.pc = "unload" => run.iters[1] <= N + 1 /\ run.iters[2] = 0
        /\ run.pc = "reload" => run.iters[1] = N + 1 /\ run.iters[2] <= N + 1
        /\ (Idle /\ last.op = "Value") => run.iters = <<N, 0>>
        /\ (Idle /\ last.op = "SetTo") => run.iters = <<N + 1, 0>>
        /\ (Idle /\ last.op = "ShiftBy") => run.iters = <<N + 1, N + 1>>

InLoop == run.pc \in {"value", "setto", "unload", "reload"}

\* C14: on a Ready filter of order N every Filter_Value, Filter_ShiftBy and
\* Filter_SetTo call returns, the loop of Filter_Value having made exactly N
\* passes, the loop of Filter_SetTo N + 1, and each of the two loops of
\* Filter_ShiftBy N + 1.
C14_LoopsTerminate == []LoopCounts /\ (InLoop ~> Idle)

\* a Filter_ShiftBy call on an order 4 filter has returned after a
\* Filter_Value call
C14_Witness ==
    /\ Idle
    /\ last.op = "ShiftBy"
    /\ prev.op = "Value"
    /\ init_args.order = 4
    /\ run.iters = <<5, 5>>

\* a Filter_Value call on an order 2 filter has returned after Filter_SetTo
C14_WitnessValue ==
    /\ Idle
    /\ last.op = "Value"
    /\ prev.op = "SetTo"
    /\ init_args.order = 2
    /\ run.iters = <<2, 0>>

\* the calls followed pass by pass leave what the calls taken whole leave
StepsAgreeWithCalls ==
    Idle =>
        /\ last.op = "Init" =>
              p_filt = Filter_Init(last.pre, init_args.b, init_args.a, init_args.order)
        /\ last.op = "Value" =>
              /\ p_filt = Filter_Value(last.pre, last.arg).f
              /\ last.ret = Filter_Value(last.pre, last.arg).ret
              /\ printed = Filter_Value(last.pre, last.arg).printed
        /\ last.op = "ShiftBy" => p_filt = Filter_ShiftBy(last.pre, last.arg)
        /\ last.op = "SetTo" => p_filt = Filter_SetTo(last.pre, last.arg)
        /\ last.op = "print_rb" =>
              \E list \in PrintedLists :
                  /\ p_filt = [last.pre EXCEPT ![list] = print_rb(last.pre[list]).print_f]
                  /\ printed = print_rb(last.pre[list]).printed

\* C15: none of the five filter operations writes to an output stream; in
\* particular a Filter_Value call prints nothing.  (print_rb, the printing
\* utility, is not one of them.)
C15_NoOutput == last.op # "print_rb" => printed = <<>>

\* C16: with numerator {5,0,0,0,0}, denominator {1,1,1,1,1} and order 4 every
\* Filter_Value output is the arithmetic mean of the five most recent inputs,
\* the argument and the four stored before it (0 where there was none).
C16_MovingAverage ==
    (last.op = "Value" /\ <<init_args.b, init_args.a>> = MovingAverage5) =>
        last.ret = FDiv(FAdd(last.arg,
                             FAdd(FAdd(Recent(last.pre.in_list.q, 1),
                                       Recent(last.pre.in_list.q, 2)),
                                  FAdd(Recent(last.pre.in_list.q, 3),
                                       Recent(last.pre.in_list.q, 4)))),
                        F(5))

\* every sample of both histories of f equals amount
AllSetTo(f, amount) ==
    /\ \A i \in 1..Len(f.in_list.q) : f.in_list.q[i] = amount
    /\ \A i \in 1..Len(f.out_list.q) : f.out_list.q[i] = amount

\* C17 as stated: for any coefficients, Filter_Value(f, amount) right after
\* Filter_SetTo(f, amount) returns amount.
C17_SteadyStateAnyCoefficients ==
    (last.op = "Value" /\ prev.op = "SetTo" /\ last.arg = prev.arg) =>
        last.ret = last.arg

\* C17 amended: for the filters whose coefficient sums are equal, Filter_Value(f,
\* amount) right after Filter_SetTo(f, amount) returns amount, and so does
\* every Filter_Value(f, amount) made while both histories are all amount,
\* which it leaves all amount.
C17_SteadyStateUnitGain ==
    UnitDCGain =>
        /\ (last.op = "Value" /\ prev.op = "SetTo" /\ last.arg = prev.arg) =>
                last.ret = last.arg
        /\ (last.op = "Value" /\ AllSetTo(last.pre, last.arg)) =>
                last.ret = last.arg /\ AllSetTo(p_filt, last.arg)

\* the second Filter_Value(f, amount) after Filter_SetTo(f, amount) on a
\* recursive filter of equal coefficient sums, amount not zero
C17_Witness ==
    /\ UnitDCGain
    /\ last.op = "Value"
    /\ prev.op = "Value"
    /\ AllSetTo(prev.pre, last.arg)
    /\ prev.arg = last.arg
    /\ last.arg # Zero
    /\ init_args.order >= 1
    /\ \E i \in 2..(init_args.order + 1) : init_args.a[i] # Zero

\* the values put in place of the oldest samples
OldestAlternatives == {F(4), F(-7)}

\* the filter f with other samples at logical index 0 of its two histories
WithOldest(f, x, y) == [f EXCEPT !.in_list.q[1] = x, !.out_list.q[1] = y]

\* C18: a Filter_Value call on a filter that differs only in the oldest sample
\* of each history returns the same value and leaves the same filter.
C18_OldestSampleIgnored ==
    last.op = "Value" =>
        \A x, y \in OldestAlternatives :
            LET other == Filter_Value(WithOldest(last.pre, x, y), last.arg)
            IN  /\ other.ret = last.ret
                /\ other.f = p_filt

\* a call on a filter of order at least 1 whose oldest samples are not zero,
\* all the coefficients it meets being non-zero
C18_Witness ==
    /\ last.op = "Value"
    /\ init_args.order >= 1
    /\ last.pre.in_list.q[1] # Zero
    /\ last.pre.out_list.q[1] # Zero
    /\ last.pre.in_list.q[1] \notin OldestAlternatives
    /\ \A i \in 1..(init_args.order + 1) :
          init_args.b[i] # Zero /\ init_args.a[i] # Zero

\* the float sum of x and y is their exact sum
ExactSum(x, y) == Representable(Rat(x[1] * y[2] + y[1] * x[2], x[2] * y[2]))

\* the samples of both histories of f
Samples(f) ==
    {f.in_list.q[i] : i \in 1..Len(f.in_list.q)}
        \cup {f.out_list.q[i] : i \in 1..Len(f.out_list.q)}

\* no addition made by shifting f by s and then by t, or by s + t, is rounded
ShiftsExact(f, s, t) ==
    /\ ExactSum(s, t)
    /\ \A x \in Samples(f) :
          /\ ExactSum(x, s)
          /\ ExactSum(FAdd(x, s), t)
          /\ ExactSum(x, FAdd(s, t))

TwoShifts == last.op = "ShiftBy" /\ prev.op = "ShiftBy"

\* C19 as stated: Filter_ShiftBy(f, 0) leaves the filter unchanged, a shift by
\* s followed by a shift by t leaves the filter a single shift by s + t leaves,
\* and a shift by s followed by a shift by -s restores the filter.
C19_ShiftsAdd ==
    /\ (last.op = "ShiftBy" /\ last.arg = Zero) => p_filt = last.pre
    /\ TwoShifts => p_filt = Filter_ShiftBy(prev.pre, FAdd(prev.arg, last.arg))
    /\ (TwoShifts /\ last.arg = FSub(Zero, prev.arg)) => p_filt = prev.pre

\* C19 amended: the first part as stated; the other two for the shifts none
\* of whose float additions is rounded.
C19_ShiftsAddWhenExact ==
    /\ (last.op = "ShiftBy" /\ last.arg = Zero) => p_filt = last.pre
    /\ (TwoShifts /\ ShiftsExact(prev.pre, prev.arg, last.arg)) =>
            p_filt = Filter_ShiftBy(prev.pre, FAdd(prev.arg, last.arg))
    /\ (TwoShifts /\ ShiftsExact(prev.pre, prev.arg, last.arg)
                  /\ last.arg = FSub(Zero, prev.arg)) =>
            p_filt = prev.pre

\* a shift by 2^24 and back of histories whose samples are not zero, with
\* exact additions
C19_Witness ==
    /\ TwoShifts
    /\ prev.arg = F(16777216)
    /\ last.arg = F(-16777216)
    /\ ShiftsExact(prev.pre, prev.arg, last.arg)
    /\ Zero \notin Samples(prev.pre)
    /\ init_args.order >= 1

\* C19: the first part, a shift by 0 of histories that are not zero
C19_WitnessZeroShift ==
    /\ last.op = "ShiftBy"
    /\ last.arg = Zero
    /\ Zero \notin Samples(last.pre)

====
